---- MODULE Spec2Model ----
(***************************************************************************)
(* State model of the page / layer / history engine of the PPT editor:     *)
(* core/history.py (save_state, undo, redo, restore_state),                *)
(* core/page_manager.py (save_current_page, load_current_page, navigation, *)
(* delete_page), textbox.py (to_dict / from_dict) and the editor handlers  *)
(* of editor_main.py and features/inpaint.py that call them.               *)
(*                                                                         *)
(* Python indices are kept 0-based (current_page_index, history_index,     *)
(* page_index); a TLA+ sequence is 1-based, so pages[i] of the code is     *)
(* pages[i + 1] here.  A Python list object that can be aliased (a page's  *)
(* "layers" list and editor.layers) is an object of the heap `lists`; two  *)
(* references are aliases when they hold the same object id.               *)
(*                                                                         *)
(* At most one worker thread of each kind runs at a time; the code starts  *)
(* one per confirmed request.                                              *)
(*                                                                         *)
(* Beside the engine: the selected image layer with its panel and canvas   *)
(* drag (SpecLayers), the compositor and _layer_bbox (SpecCompose), the    *)
(* temporary files of the OCR workers (SpecOcr) and core/font_fit.py       *)
(* (SpecFit).  Each has a variable of its own that the others leave alone. *)
(*                                                                         *)
(* Worker threads beside the UI thread on a session of imported pages: the *)
(* all-pages detection (SpecDetectAll), the export of features/export.py   *)
(* (SpecExport) and the mask of the current-page repair (SpecInpaint).     *)
(***************************************************************************)
EXTENDS Integers, Sequences, FiniteSets, TLC

\* ---------------------------------------------------------------- bounds
MaxPages == 3       \* pages in a session
MainPages == 2      \* pages in a session of Spec (SpecPages allows MaxPages)
MaxBoxes == 1       \* text boxes in one list
MaxLayers == 1      \* layers ever created (layer ids)
MaxStrokes == 1     \* inpaint strokes in the stroke list
MaxClock == 3       \* save_state calls (timestamps) in a run
MaxWork == 3        \* state-changing requests (snapshots, edits, imports) in a run
\* editor.max_history is 50 (editor_main.py:120); scaled down so that an
\* eviction is reached within MaxClock save_state calls.
max_history == 2
MaxEntries == 2      \* page entries of a project file

NObj == 2 * MaxPages + 2    \* list objects available to one handler

VARIABLES
    editor,   \* the ModernPPTEditor instance: a record of its fields
              \*   pages               sequence of page dicts
              \*   lists               heap of layer-list objects: id -> list
              \*   cur                 current_page_index
              \*   text_boxes          list of TextBox objects (or None)
              \*   clean_bg_path
              \*   layers              reference to a layer-list object
              \*   history, history_index, inpaint_strokes
              \*   clock               save_state calls so far (timestamps)
              \*   uid                 layers created so far (uuid source)
              \*   err                 exception the last handler raised
              \*   notice              message the last handler showed
    gen,      \* the worker thread of auto_generate_background_current
    batch,    \* the worker thread of auto_generate_background_all
    last,     \* the last handler that ran
    before,   \* page state before the last snapshot-and-edit handler
    work,     \* edits without a snapshot, and imports, so far
    panel,    \* the selected image layer, its panel and the canvas drag
    call,     \* a call of a pure function: its arguments and its results
    ocr,      \* the OCR worker threads and the temporary files on disk
    export,   \* the export worker thread and what it has rendered
    mask      \* the mask the worker of generate_bg has built

vars == <<editor, gen, batch, last, before, work, panel, call, ocr, export,
         mask>>

\* ------------------------------------------------------------ value sets
NoPath == "None"                     \* Python None for a path
Texts == {"A", "B"}                  \* texts typed into the text entry
Widths == {-5, 20}                   \* widths typed into the width entry
Objs == 1..NObj

\* ------------------------------------------------------------- TextBox
\* A TextBox object; `none` marks the Python None that from_dict returns
\* for data the constructor rejects.
NoneBox == [none |-> TRUE, text |-> "", width |-> 0]

\* TextBox.__init__: ValueError for a negative width.
TextBoxValid(width) == width >= 0

NewTextBox(width) == [none |-> FALSE, text |-> "", width |-> width]

\* TextBox.to_dict (the caller checks for None first).
to_dict(box) == [text |-> box.text, width |-> box.width]

\* TextBox.from_dict: the constructor's ValueError is caught, None returned.
from_dict(d) ==
    IF TextBoxValid(d.width)
    THEN [none |-> FALSE, text |-> d.text, width |-> d.width]
    ELSE NoneBox

ToDicts(boxes) == [i \in 1..Len(boxes) |-> to_dict(boxes[i])]
FromDicts(ds) == [i \in 1..Len(ds) |-> from_dict(ds[i])]
HasNone(boxes) == \E i \in 1..Len(boxes) : boxes[i].none

\* --------------------------------------------------------- editor record
\* The handlers are written as operators over a record of the editor's
\* fields, so that a handler is the composition of the calls it makes.
E == [editor EXCEPT !.err = "", !.notice = ""]

Raise(e, x) == [e EXCEPT !.err = x]
Notify(e, m) == [e EXCEPT !.notice = m]
Ok(e) == e.err = ""

InRange(e) == e.pages # <<>> /\ e.cur < Len(e.pages)
CurPage(e) == e.pages[e.cur + 1]

\* References to list objects held by the editor.
Refs(e) == {e.pages[i].lid : i \in 1..Len(e.pages)} \cup {e.layers}
\* A list object no reference holds (what a new Python list is).
Fresh(e) == CHOOSE o \in Objs \ Refs(e) : \A p \in Objs \ Refs(e) : o <= p


\* deepcopy of a layer list into a new list object bound to page i (1-based).
RebindPageLayers(e, i, value) ==
    LET o == Fresh(e)
    IN  [e EXCEPT !.lists[o] = value, !.pages[i].lid = o]

\* The layer list a page holds.
PageLayers(e, i) == e.lists[e.pages[i].lid]

\* ------------------------------------------------- core/page_manager.py
\* save_current_page: the list comprehension over text_boxes raises on a
\* None element before anything is assigned.
save_current_page(e) ==
    IF ~InRange(e) THEN e
    ELSE IF HasNone(e.text_boxes) THEN Raise(e, "AttributeError")
    ELSE [e EXCEPT !.pages[e.cur + 1] =
              [@ EXCEPT !.text_boxes = ToDicts(e.text_boxes),
                        !.bg_path = e.clean_bg_path,
                        !.lid = e.layers]]

\* page_manager.py:48-55: the assignments of load_current_page.
LoadBuffers(e) ==
    [e EXCEPT !.clean_bg_path = CurPage(e).bg_path,
              !.text_boxes = FromDicts(CurPage(e).text_boxes),
              !.layers = CurPage(e).lid]

\* refresh_canvas / update_listbox read the fields of every text box and
\* raise on a None element (editor_main.py:1861, 4586).
refresh_canvas(e) ==
    IF e.pages # <<>> /\ HasNone(e.text_boxes) THEN Raise(e, "AttributeError")
    ELSE e

\* load_current_page ends with fit_image_to_canvas and update_listbox: a
\* None element raises after the buffers have been assigned.
load_current_page(e) ==
    IF ~InRange(e) THEN e
    ELSE refresh_canvas(LoadBuffers(e))

\* save, set the index, load; an exception in save leaves the index alone.
SwitchTo(e, index) ==
    LET s == save_current_page(e)
    IN  IF ~Ok(s) THEN s
        ELSE load_current_page([s EXCEPT !.cur = index])

prev_page(e) ==
    IF e.pages = <<>> \/ e.cur <= 0 THEN e
    ELSE SwitchTo(e, e.cur - 1)

next_page(e) ==
    IF e.pages = <<>> \/ e.cur >= Len(e.pages) - 1 THEN e
    ELSE SwitchTo(e, e.cur + 1)

go_to_page(e, index) ==
    IF 0 <= index /\ index < Len(e.pages) THEN SwitchTo(e, index)
    ELSE e

\* The sequence without its element at 0-based position i.
DelAt(s, i) == [k \in 1..(Len(s) - 1) |-> IF k <= i THEN s[k] ELSE s[k + 1]]

\* A delete_page that only clamps the index.
AdjustIndexClampOnly(cur, page_index, newlen) ==
    IF cur >= newlen THEN newlen - 1 ELSE cur

\* The index adjustment of delete_page after `del editor.pages[page_index]`.
AdjustIndex(cur, page_index, newlen) ==
    IF cur >= newlen THEN newlen - 1
    ELSE IF cur > page_index THEN cur - 1
    ELSE cur

\* A delete_page without the refusal on the last page.
delete_page_unguarded(e, page_index, confirm) ==
    IF page_index < 0 \/ page_index >= Len(e.pages) THEN e
    ELSE IF ~confirm THEN e
    ELSE LET ps == DelAt(e.pages, page_index)
             d == [e EXCEPT !.pages = ps,
                            !.cur = AdjustIndex(e.cur, page_index, Len(ps))]
             l == load_current_page(d)
         IN  IF Ok(l) THEN Notify(l, "page deleted") ELSE l

delete_page(e, page_index, confirm) ==
    IF page_index < 0 \/ page_index >= Len(e.pages) THEN e
    ELSE IF Len(e.pages) <= 1 THEN Notify(e, "at least one page")
    ELSE IF ~confirm THEN e
    ELSE LET ps == DelAt(e.pages, page_index)
             d == [e EXCEPT !.pages = ps,
                            !.cur = AdjustIndex(e.cur, page_index, Len(ps))]
             l == load_current_page(d)
         IN  IF Ok(l) THEN Notify(l, "page deleted") ELSE l

\* ------------------------------------------------------ core/history.py
\* A history entry; the payload keys of every operation type are fields of
\* one record, the ones an entry's type does not use are empty.
Entry(type, page_index, ts) ==
    [type |-> type, page_index |-> page_index, ts |-> ts,
     text_boxes |-> <<>>, old_bg_path |-> NoPath, new_bg_path |-> NoPath,
     stroke |-> 0, mask_state |-> <<>>, layers |-> <<>>, pages_layers |-> <<>>]

\* extra_data of a save_state call: the keys save_state reads.
NoExtra == [has_old |-> FALSE, old_bg_path |-> NoPath, new_bg_path |-> NoPath,
            stroke |-> 0]

\* The payload of the new entry (history.py:37-62).
Snapshot(e, type, extra) ==
    LET st == Entry(type, e.cur, e.clock + 1)
    IN  CASE type = "textboxes" ->
               [st EXCEPT !.text_boxes = ToDicts(e.text_boxes)]
          [] type = "background" ->
               [st EXCEPT !.old_bg_path = IF extra.has_old THEN extra.old_bg_path
                                          ELSE CurPage(e).bg_path,
                          !.new_bg_path = extra.new_bg_path]
          [] type = "inpaint_stroke" ->
               [st EXCEPT !.stroke = extra.stroke,
                          !.mask_state = e.inpaint_strokes]
          [] type = "layers" ->
               [st EXCEPT !.layers = IF e.pages # <<>>
                                     THEN PageLayers(e, e.cur + 1) ELSE <<>>]
          [] type = "pages_layers" ->
               [st EXCEPT !.pages_layers =
                              [i \in 1..Len(e.pages) |-> PageLayers(e, i)]]

\* The exception building the payload raises, "" if none.
SnapshotError(e, type) ==
    CASE type = "textboxes" ->
           IF HasNone(e.text_boxes) THEN "AttributeError" ELSE ""
      [] type = "background" ->
           IF ~InRange(e) THEN "IndexError" ELSE ""
      [] type = "layers" ->
           IF e.pages # <<>> /\ ~InRange(e) THEN "IndexError" ELSE ""
      [] OTHER -> ""

\* A save_state that keeps the entries after the cursor.
TruncateNothing(h, index) == h

\* history.py:64-65: drop the entries after the cursor.
Truncate(h, index) == IF index < Len(h) - 1 THEN SubSeq(h, 1, index + 1) ELSE h

\* A save_state that evicts the newest entry instead of the oldest.
PushEvictNewest(e, st) ==
    LET h == Append(Truncate(e.history, e.history_index), st)
    IN  IF Len(h) > max_history
        THEN [e EXCEPT !.history = SubSeq(h, 1, Len(h) - 1), !.clock = @ + 1]
        ELSE [e EXCEPT !.history = h, !.history_index = @ + 1, !.clock = @ + 1]

\* A save_state that advances the cursor also when it evicts.
PushAlwaysAdvances(e, st) ==
    LET h == Append(Truncate(e.history, e.history_index), st)
    IN  IF Len(h) > max_history
        THEN [e EXCEPT !.history = Tail(h), !.history_index = @ + 1,
                       !.clock = @ + 1]
        ELSE [e EXCEPT !.history = h, !.history_index = @ + 1, !.clock = @ + 1]

\* history.py:67-72: append, then evict the oldest or advance the cursor.
Push(e, st) ==
    LET h == Append(Truncate(e.history, e.history_index), st)
    IN  IF Len(h) > max_history
        THEN [e EXCEPT !.history = Tail(h), !.clock = @ + 1]
        ELSE [e EXCEPT !.history = h, !.history_index = @ + 1, !.clock = @ + 1]

save_state(e, type, extra) ==
    IF SnapshotError(e, type) # "" THEN Raise(e, SnapshotError(e, type))
    ELSE Push(e, Snapshot(e, type, extra))

RECURSIVE RebindAll(_, _, _)
\* history.py:152-153: every page gets a deep copy of the snapshot's list.
RebindAll(e, pls, i) ==
    IF i > Len(pls) THEN e
    ELSE RebindAll(RebindPageLayers(e, i, pls[i]), pls, i + 1)

\* The dispatch of restore_state on the entry's type (history.py:113-159);
\* `exists` is os.path.exists(old_bg_path).
ApplyPayload(e, st, exists) ==
    CASE st.type = "textboxes" ->
           refresh_canvas([e EXCEPT !.text_boxes = FromDicts(st.text_boxes)])
      [] st.type = "background" ->
           IF ~InRange(e) THEN Raise(e, "IndexError")
           ELSE LET bg == IF st.old_bg_path # NoPath /\ exists
                          THEN st.old_bg_path ELSE NoPath
                IN  refresh_canvas([e EXCEPT !.pages[e.cur + 1].bg_path = bg,
                                             !.clean_bg_path = bg])
      [] st.type = "inpaint_stroke" ->
           [e EXCEPT !.inpaint_strokes = st.mask_state]
      [] st.type = "layers" ->
           IF ~InRange(e) THEN Raise(e, "IndexError")
           ELSE LET r == RebindPageLayers(e, e.cur + 1, st.layers)
                IN  refresh_canvas([r EXCEPT !.layers = CurPage(r).lid])
      [] st.type = "pages_layers" ->
           LET r == IF e.pages # <<>> /\ st.pages_layers # <<>>
                       /\ Len(st.pages_layers) = Len(e.pages)
                    THEN RebindAll(e, st.pages_layers, 1)
                    ELSE e
           IN  IF r.pages = <<>> THEN r
               ELSE IF ~InRange(r) THEN Raise(r, "IndexError")
               ELSE refresh_canvas([r EXCEPT !.layers = CurPage(r).lid])

\* history.py:108-111: the page switch that precedes the dispatch.
SwitchForRestore(e, page_index) ==
    IF page_index # e.cur
    THEN LET s == save_current_page(e)
         IN  IF ~Ok(s) THEN s
             ELSE load_current_page([s EXCEPT !.cur = page_index])
    ELSE e

restore_state(e, st, exists) ==
    LET s == SwitchForRestore(e, st.page_index)
    IN  IF ~Ok(s) THEN s ELSE ApplyPayload(s, st, exists)

undo(e, exists) ==
    IF e.history_index <= 0 THEN Notify(e, "cannot undo")
    ELSE LET d == [e EXCEPT !.history_index = @ - 1]
             r == restore_state(d, d.history[d.history_index + 1], exists)
         IN  IF Ok(r) THEN Notify(r, "undo") ELSE r

redo(e, exists) ==
    IF e.history_index >= Len(e.history) - 1 THEN Notify(e, "cannot redo")
    ELSE LET d == [e EXCEPT !.history_index = @ + 1]
             r == restore_state(d, d.history[d.history_index + 1], exists)
         IN  IF Ok(r) THEN Notify(r, "redo") ELSE r

\* ------------------------------------------- editor_main.py: text boxes
\* finish_drawing (4425-4450): snapshot, then append a new box.
finish_drawing(e, width) ==
    IF width < 10 THEN e
    ELSE LET s == save_state(e, "textboxes", NoExtra)
         IN  IF ~Ok(s) THEN s
             ELSE refresh_canvas(
                      [s EXCEPT !.text_boxes = Append(@, NewTextBox(width))])

\* delete_selected_box (4865-4887), one selected index.
delete_selected_box(e, idx) ==
    IF idx < 0 \/ idx >= Len(e.text_boxes) THEN e
    ELSE LET s == save_state(e, "textboxes", NoExtra)
         IN  IF ~Ok(s) THEN s
             ELSE refresh_canvas([s EXCEPT !.text_boxes = DelAt(@, idx)])

\* on_text_change (4636-4642) on the selected box: no snapshot is taken.
on_text_change(e, idx, text) ==
    IF idx < 0 THEN e
    ELSE IF e.text_boxes[idx + 1].none THEN Raise(e, "AttributeError")
    ELSE refresh_canvas([e EXCEPT !.text_boxes[idx + 1].text = text])

\* on_position_change (4644-4655): the entry's integer is assigned as it
\* is; no snapshot is taken.
on_position_change(e, idx, width) ==
    IF idx < 0 THEN e
    ELSE IF e.text_boxes[idx + 1].none THEN Raise(e, "AttributeError")
    ELSE refresh_canvas([e EXCEPT !.text_boxes[idx + 1].width = width])

\* ----------------------------------------------- editor_main.py: layers
NewLayer(id) == [id |-> id, visible |-> TRUE]

\* add_image_layer (2101-2131): insert at index 0 of the page's own list.
add_image_layer(e, i) ==
    [e EXCEPT !.lists[e.pages[i].lid] = <<NewLayer(e.uid + 1)>> \o @,
              !.uid = @ + 1]

\* toggle_selected_layer (2313-2321) with layer idx selected.
toggle_selected_layer(e, idx) ==
    IF e.pages = <<>> THEN e
    ELSE IF ~InRange(e) THEN Raise(e, "IndexError")
    ELSE IF idx < 0 \/ idx >= Len(PageLayers(e, e.cur + 1)) THEN e
    ELSE LET s == save_state(e, "layers", NoExtra)
         IN  refresh_canvas(
                 [s EXCEPT !.lists[CurPage(e).lid][idx + 1].visible = ~@])

\* delete_selected_layer (2323-2332).
delete_selected_layer(e, idx) ==
    IF e.pages = <<>> THEN e
    ELSE IF ~InRange(e) THEN Raise(e, "IndexError")
    ELSE IF idx < 0 \/ idx >= Len(PageLayers(e, e.cur + 1)) THEN e
    ELSE LET s == save_state(e, "layers", NoExtra)
         IN  refresh_canvas([s EXCEPT !.lists[CurPage(e).lid] = DelAt(@, idx)])

\* -------------------------------------------- page_manager.py: background
set_page_background(e, page_index, path) ==
    IF page_index < 0 \/ page_index >= Len(e.pages) THEN e
    ELSE IF path = NoPath THEN e
    ELSE LET r == [e EXCEPT !.pages[page_index + 1].bg_path = path]
         IN  IF page_index = e.cur
             THEN refresh_canvas([r EXCEPT !.clean_bg_path = path])
             ELSE r

clear_page_background(e, page_index) ==
    IF page_index < 0 \/ page_index >= Len(e.pages) THEN e
    ELSE LET r == [e EXCEPT !.pages[page_index + 1].bg_path = NoPath]
         IN  IF page_index = e.cur
             THEN refresh_canvas([r EXCEPT !.clean_bg_path = NoPath])
             ELSE r

\* ------------------------------------------------ features/inpaint.py
\* handle_inpaint_release (142-176), rectangle tool: the stroke is appended
\* and then the snapshot is taken.  The mask_state key the caller passes is
\* not read by save_state.
handle_inpaint_release(e, stroke) ==
    save_state([e EXCEPT !.inpaint_strokes = Append(@, stroke)],
               "inpaint_stroke", [NoExtra EXCEPT !.stroke = stroke])

\* ------------------------------------ editor_main.py: import of images
RECURSIVE AddPages(_, _)
\* load_multiple_images (1468-1482): one new page dict per file, each with
\* its own empty lists.
AddPages(e, n) ==
    IF n = 0 THEN e
    ELSE LET o == Fresh(e)
             used == {e.pages[i].id : i \in 1..Len(e.pages)}
             id == CHOOSE k \in 1..(MaxPages + 1) \ used :
                       \A m \in 1..(MaxPages + 1) \ used : k <= m
         IN  AddPages([e EXCEPT !.lists[o] = <<>>,
                                !.pages = Append(@, [id |-> id,
                                                     text_boxes |-> <<>>,
                                                     bg_path |-> NoPath,
                                                     lid |-> o])],
                      n - 1)

\* load_multiple_images (1440-1487); choice is the answer to "clear the
\* existing pages?" (asked only when there are pages).
load_multiple_images(e, n, choice) ==
    IF n = 0 THEN e
    ELSE LET s == IF e.pages # <<>> THEN save_current_page(e) ELSE e
         IN  IF ~Ok(s) THEN s
             ELSE IF s.pages # <<>> /\ choice = "cancel" THEN s
             ELSE LET c == IF s.pages # <<>> /\ choice = "clear"
                           THEN [s EXCEPT !.pages = <<>>] ELSE s
                      a == AddPages(c, n)
                  IN  load_current_page([a EXCEPT !.cur = Len(c.pages)])

\* ------------------------------------------------- features/project.py
\* A project file: whether json.load accepts it, its page entries ("ok",
\* "nokey" for an entry without original_path, "nofile" for an entry whose
\* image is gone) and its current_page.
ProjectFiles ==
    {[json |-> FALSE, entries |-> <<>>, current_page |-> 0]} \cup
    [json : {TRUE},
     entries : UNION {[1..n -> {"ok", "nokey", "nofile"}] : n \in 1..MaxEntries},
     current_page : {0, 1}]

RECURSIVE LoadEntries(_, _, _)
\* load_project (62-80): the loop over the page entries; page_info
\* ["original_path"] raises KeyError, an entry whose image is gone is skipped.
LoadEntries(e, entries, k) ==
    IF k > Len(entries) THEN e
    ELSE IF entries[k] = "nokey" THEN Raise(e, "KeyError")
    ELSE IF entries[k] = "nofile" THEN LoadEntries(e, entries, k + 1)
    ELSE LoadEntries(AddPages(e, 1), entries, k + 1)

\* load_project (53-98): everything after the file dialog runs in one try;
\* the except clause shows the error and returns.
load_project(e, file) ==
    IF ~file.json THEN Notify(e, "load failed")
    ELSE LET r == LoadEntries([e EXCEPT !.pages = <<>>], file.entries, 1)
             last_index == IF r.pages # <<>> THEN Len(r.pages) - 1 ELSE 0
             c == [r EXCEPT !.cur = IF file.current_page < last_index
                                    THEN file.current_page ELSE last_index]
             l == IF c.pages # <<>> THEN load_current_page(c) ELSE c
         IN  IF ~Ok(r) THEN Notify([r EXCEPT !.err = ""], "load failed")
             ELSE IF ~Ok(l) THEN Notify([l EXCEPT !.err = ""], "load failed")
             ELSE Notify(l, "project loaded")

\* -------------------------- editor_main.py: repair layer of the current page
Idle == [busy |-> FALSE, page |-> 0]

\* auto_generate_background_current (6978-7011), the part run by the UI
\* thread: the guards, the "layers" snapshot, the start of the worker.
\* The result is the editor and the page the worker's closure captured.
auto_generate_background_current(e, confirm) ==
    IF e.pages = <<>> THEN Notify(e, "import first")
    ELSE IF e.text_boxes = <<>> THEN Notify(e, "no text boxes")
    ELSE IF ~confirm THEN e
    ELSE IF ~InRange(e) THEN Raise(e, "IndexError")
    ELSE save_state(e, "layers", NoExtra)

\* generate_bg (7013-7040), the worker thread: on a result the layer is
\* added to the captured page dict, whether or not it is still in pages.
PageOfId(e, id) == {i \in 1..Len(e.pages) : e.pages[i].id = id}

\* A worker that adds the layer before it looks at the result.
generate_bg_adds_anyway(e, page, result) ==
    IF PageOfId(e, page) # {}
    THEN add_image_layer(e, CHOOSE i \in PageOfId(e, page) : TRUE)
    ELSE e

\* No result, or an exception: the failure is posted to the status line
\* (7055, 7063) and call_inpaint_api has posted the error dialog.
generate_bg(e, page, result) ==
    IF ~result THEN Notify(e, "repair failed")
    ELSE IF PageOfId(e, page) # {}
    THEN add_image_layer(e, CHOOSE i \in PageOfId(e, page) : TRUE)
    ELSE e

\* ------------------------------------------- features/ai_replace.py
\* execute_ai_replace (279-325), the part before the worker starts: the
\* page is captured, nothing of the editor is written.
execute_ai_replace(e) ==
    IF ~InRange(e) THEN Raise(e, "IndexError") ELSE e

\* process_in_thread (327-411): a result becomes a layer of the captured
\* page and editor.layers is set to that page's list; no result or an
\* exception shows the error dialog.
process_in_thread(e, result) ==
    IF ~result THEN Notify(e, "AI replace failed")
    ELSE LET a == add_image_layer(e, e.cur + 1)
         IN  Notify([a EXCEPT !.layers = CurPage(a).lid], "AI replace done")

\* ----------------------- editor_main.py: repair layers of every page
\* auto_generate_background_all (7067-7102), the part run by the UI thread.
auto_generate_background_all(e, confirm) ==
    IF e.pages = <<>> THEN Notify(e, "import first")
    ELSE IF \A i \in 1..Len(e.pages) : e.pages[i].text_boxes = <<>>
         THEN Notify(e, "no text boxes")
    ELSE IF ~confirm THEN e
    ELSE save_current_page(save_state(e, "pages_layers", NoExtra))

\* generate_all_bg (7104-7141), one iteration of the worker's loop over
\* editor.pages at 0-based position pos; result is what the request gave
\* ("ok", "none" for no image, "raise" for an exception).
generate_all_bg(e, pos, result) ==
    IF e.pages[pos + 1].text_boxes = <<>> THEN e
    ELSE IF \E k \in 1..Len(e.pages[pos + 1].text_boxes) :
                from_dict(e.pages[pos + 1].text_boxes[k]).none THEN e
    ELSE IF result = "ok" THEN add_image_layer(e, pos + 1)
    ELSE e

\* The same iteration as the worker's locals see it: b is
\*   todo           ids of the pages that had text boxes when it started
\*   seen           ids of the pages it has sent a request for
\*   success_count, fail_count
CountPage(b, e, pos, result) ==
    LET page == e.pages[pos + 1]
        next == [b EXCEPT !.pos = @ + 1]
    IN  IF page.text_boxes = <<>> THEN next
        ELSE IF /\ result = "ok"
                /\ \A k \in 1..Len(page.text_boxes) :
                       ~from_dict(page.text_boxes[k]).none
        THEN [next EXCEPT !.seen = @ \cup {page.id}, !.success_count = @ + 1]
        ELSE [next EXCEPT !.seen = @ \cup {page.id}, !.fail_count = @ + 1]

\* ------------------------------------------------------------ the state
\* Canonical numbering of the list objects: in the order pages, then
\* editor.layers, reach them; an object nothing refers to is forgotten.
Order(e) == [j \in 1..(Len(e.pages) + 1) |->
                IF j <= Len(e.pages) THEN e.pages[j].lid ELSE e.layers]
Rank(e, o) ==
    LET first == CHOOSE j \in DOMAIN Order(e) :
                     Order(e)[j] = o /\ \A k \in 1..(j - 1) : Order(e)[k] # o
    IN  Cardinality({Order(e)[k] : k \in 1..first})
Normalize(e) ==
    [e EXCEPT !.lists = [k \in Objs |->
                            IF \E o \in Refs(e) : Rank(e, o) = k
                            THEN e.lists[CHOOSE o \in Refs(e) : Rank(e, o) = k]
                            ELSE <<>>],
              !.pages = [i \in DOMAIN e.pages |->
                            [e.pages[i] EXCEPT !.lid = Rank(e, @)]],
              !.layers = Rank(e, e.layers)]

\* ------------------------------------------------- the selected layer
\* The transform of an image layer and the handlers of the layer panel and
\* of the canvas that change it.  panel is
\*   layer              the selected layer dict: x, y, scale (in percent),
\*                      crop, locked, visible
\*   saves              save_state("layers") calls so far
\*   status             the status line the last handler wrote ("" if none)
\*   is_layer_dragging  a canvas drag of the layer is under way
\*   origin             _layer_drag_origin_xy
\*   crop_win           the crop window is open (it is not modal)
MaxSaves == 3
NoCrop == <<>>
Positions == {<<0, 0>>, <<5, 7>>}
ScalePcts == {50, 100}
Crops == {[x0 |-> 1, y0 |-> 1, x1 |-> 3, y1 |-> 3]}
LockedNotice == "layer locked"

NewPanel(locked) ==
    [layer |-> [x |-> 0, y |-> 0, scale |-> 100, crop |-> NoCrop,
                locked |-> locked, visible |-> TRUE],
     saves |-> 0, status |-> "", is_layer_dragging |-> FALSE,
     origin |-> <<0, 0>>, crop_win |-> FALSE]

\* save_state("layers") as the layer panel sees it: one more history entry.
SaveLayers(p) == [p EXCEPT !.saves = @ + 1]
update_status(p, text) == [p EXCEPT !.status = text]

toggle_selected_layer_lock(p) ==
    [SaveLayers(p) EXCEPT !.layer.locked = ~p.layer.locked]

_apply_layer_transform_from_ui(p, x, y) ==
    IF p.layer.locked THEN update_status(p, LockedNotice)
    ELSE IF x = p.layer.x /\ y = p.layer.y THEN p
    ELSE [SaveLayers(p) EXCEPT !.layer.x = x, !.layer.y = y]

_on_layer_scale_change(p, value) ==
    IF p.layer.locked THEN update_status(p, LockedNotice)
    ELSE IF value = p.layer.scale THEN p
    ELSE [SaveLayers(p) EXCEPT !.layer.scale = value]

reset_selected_layer_crop(p) ==
    IF p.layer.locked THEN update_status(p, LockedNotice)
    ELSE IF p.layer.crop = NoCrop THEN p
    ELSE [SaveLayers(p) EXCEPT !.layer.crop = NoCrop]

\* The crop button: the window opens on the layer selected now.
crop_selected_layer(p) ==
    IF p.layer.locked THEN update_status(p, LockedNotice)
    ELSE [p EXCEPT !.crop_win = TRUE]

\* The "apply" button of the crop window: no look at the lock.
apply_crop(p, rect) ==
    IF rect.x1 <= rect.x0 \/ rect.y1 <= rect.y0
    THEN [p EXCEPT !.crop_win = FALSE]
    ELSE [SaveLayers(p) EXCEPT !.layer.crop = rect, !.crop_win = FALSE]

\* A press on the canvas; inside says the point is in _layer_bbox(layer).
on_canvas_press(p, inside) ==
    IF ~p.layer.locked /\ p.layer.visible /\ inside
    THEN [SaveLayers(p) EXCEPT !.is_layer_dragging = TRUE,
                               !.origin = <<p.layer.x, p.layer.y>>]
    ELSE p

on_canvas_drag(p, dx, dy) ==
    IF ~p.is_layer_dragging THEN p
    ELSE IF p.layer.locked THEN [p EXCEPT !.is_layer_dragging = FALSE]
    ELSE [p EXCEPT !.layer.x = p.origin[1] + dx, !.layer.y = p.origin[2] + dy]

on_canvas_release(p) == [p EXCEPT !.is_layer_dragging = FALSE]

\* The state of the page being edited that a snapshot-and-edit handler changes.
PageState(e) ==
    [text_boxes |-> e.text_boxes,
     layers |-> IF InRange(e) THEN PageLayers(e, e.cur + 1) ELSE <<>>]
NotArmed == [st |-> "no", text_boxes |-> <<>>, layers |-> <<>>]

\* The variables after a handler whose result is e.
Commit(e, op) ==
    /\ editor' = Normalize(e)
    /\ last' = op
    /\ UNCHANGED <<panel, call, ocr, export, mask>>

\* The worker's captured page is a dict object: once the page is out of
\* editor.pages nothing the editor holds refers to it.
KeepGen(e) ==
    gen' = IF gen.busy /\ PageOfId(e, gen.page) = {}
           THEN [gen EXCEPT !.page = 0] ELSE gen

\* A handler that takes a snapshot and then edits the page: the page state
\* before it is remembered for the undo that may follow.
Arm(e) ==
    before' = IF Ok(e) /\ e.clock > editor.clock
              THEN [st |-> "armed"] @@ PageState(E)
              ELSE NotArmed
Disarm == before' = NotArmed

\* The batch worker: pos is the position of its loop in the list that was
\* editor.pages when it started; orphan says editor.pages is another list now.
NoBatch ==
    [busy |-> FALSE, pos |-> 0, orphan |-> FALSE, todo |-> {}, seen |-> {},
     success_count |-> 0, fail_count |-> 0]

\* The editor as __init__ leaves it.
NewEditor ==
    [pages |-> <<>>, lists |-> [o \in Objs |-> <<>>], cur |-> 0,
     text_boxes |-> <<>>, clean_bg_path |-> NoPath, layers |-> 1,
     history |-> <<>>, history_index |-> -1,
     inpaint_strokes |-> <<>>, clock |-> 0, uid |-> 0,
     err |-> "", notice |-> ""]

InitEditor ==
    /\ editor = NewEditor
    /\ gen = Idle
    /\ batch = NoBatch
    /\ last = "init"
    /\ before = NotArmed
    /\ work = 0

NoCall == [fn |-> "none"]

\* No OCR worker runs and no temporary file exists.  ocr is
\*   temp     the temporary files on disk (numbered as they are made)
\*   made     temporary files made so far
\*   held     temp_path of each worker that is inside ocr.predict (0: none)
\*   pos      position of detect_all's loop over the pages (-1: not running)
Workers == {"detect", "detect_all", "ocr_task"}
NoOcr == [temp |-> {}, made |-> 0, held |-> [w \in Workers |-> 0], pos |-> -1]

\* No export runs.  export is
\*   st       "idle", "running" or "done"
\*   pending  the save_current_page the worker posted has not run yet
\*   pos      position of the worker's loop over the pages
\*   cur      current_page_index when the export was started
\*   boxes    editor.text_boxes when the export was started
\*   out      the text boxes rendered for each page so far
NoExport ==
    [st |-> "idle", pending |-> FALSE, pos |-> 0, cur |-> 0, boxes |-> <<>>,
     out |-> <<>>]

\* The worker of generate_bg has built no mask; page is the page whose text
\* boxes a mask was built from.
NoMask == [made |-> FALSE, page |-> 0]

Init ==
    /\ InitEditor
    /\ panel = NewPanel(FALSE)
    /\ call = NoCall
    /\ ocr = NoOcr
    /\ export = NoExport
    /\ mask = NoMask

\* ---------------------------------------------------------- the actions
BoxIndexes == 0..(Len(editor.text_boxes) - 1)
LayerIndexes == IF InRange(E) THEN 0..(Len(PageLayers(E, editor.cur + 1)) - 1)
                ELSE {0}
Work == editor.clock + work
CanSnapshot == editor.clock < MaxClock /\ Work < MaxWork
CanEdit == Work < MaxWork

\* The import dialog with up to maxn files chosen.
Import(maxn) ==
    \E n \in 1..maxn, choice \in {"clear", "append", "cancel"} :
        /\ CanEdit
        /\ (IF choice = "append" THEN Len(editor.pages) ELSE 0) + n <= maxn
        /\ LET e == load_multiple_images(E, n, choice)
           IN  Commit(e, "load_multiple_images") /\ KeepGen(e)
        /\ work' = work + 1
        /\ batch' = IF batch.busy /\ choice = "clear" /\ editor.pages # <<>>
                    THEN [batch EXCEPT !.orphan = TRUE] ELSE batch
        /\ Disarm

LoadMultipleImages == Import(MainPages)

\* The "open project" dialog with a file chosen.
LoadProject ==
    \E file \in ProjectFiles :
        /\ CanEdit
        /\ LET e == load_project(E, file)
           IN  Commit(e, "load_project") /\ KeepGen(e)
        /\ work' = work + 1
        /\ batch' = IF batch.busy /\ file.json
                    THEN [batch EXCEPT !.orphan = TRUE] ELSE batch
        /\ Disarm

LoadManyImages == Import(MaxPages)

FinishDrawing ==
    /\ Len(editor.text_boxes) < MaxBoxes
    /\ CanSnapshot
    /\ LET e == finish_drawing(E, 20)
       IN  Commit(e, "finish_drawing") /\ Arm(e)
    /\ UNCHANGED <<gen, batch, work>>

DeleteSelectedBox ==
    \E idx \in BoxIndexes :
        /\ CanSnapshot
        /\ LET e == delete_selected_box(E, idx)
           IN  Commit(e, "delete_selected_box") /\ Arm(e)
        /\ UNCHANGED <<gen, batch, work>>

OnTextChange ==
    \E idx \in BoxIndexes, text \in Texts :
        /\ CanEdit
        /\ Commit(on_text_change(E, idx, text), "on_text_change")
        /\ work' = work + 1
        /\ Disarm
        /\ UNCHANGED <<gen, batch>>

OnPositionChange ==
    \E idx \in BoxIndexes, width \in Widths :
        /\ CanEdit
        /\ Commit(on_position_change(E, idx, width), "on_position_change")
        /\ work' = work + 1
        /\ Disarm
        /\ UNCHANGED <<gen, batch>>

ToggleSelectedLayer ==
    \E idx \in LayerIndexes :
        /\ CanSnapshot
        /\ LET e == toggle_selected_layer(E, idx)
           IN  Commit(e, "toggle_selected_layer") /\ Arm(e)
        /\ UNCHANGED <<gen, batch, work>>

DeleteSelectedLayer ==
    \E idx \in LayerIndexes :
        /\ CanSnapshot
        /\ LET e == delete_selected_layer(E, idx)
           IN  Commit(e, "delete_selected_layer") /\ Arm(e)
        /\ UNCHANGED <<gen, batch, work>>

SetPageBackground ==
    \E i \in 0..(Len(editor.pages) - 1) :
        /\ CanEdit
        /\ Commit(set_page_background(E, i, "bg"), "set_page_background")
        /\ work' = work + 1
        /\ Disarm
        /\ UNCHANGED <<gen, batch>>

ClearPageBackground ==
    \E i \in 0..(Len(editor.pages) - 1) :
        /\ CanEdit
        /\ Commit(clear_page_background(E, i), "clear_page_background")
        /\ work' = work + 1
        /\ Disarm
        /\ UNCHANGED <<gen, batch>>

\* The release that ends a rectangle gesture (inpaint_rect_start is set).
HandleInpaintRelease ==
    /\ editor.pages # <<>>
    /\ Len(editor.inpaint_strokes) < MaxStrokes
    /\ CanSnapshot
    /\ Commit(handle_inpaint_release(E, Len(editor.inpaint_strokes) + 1),
              "handle_inpaint_release")
    /\ Disarm
    /\ UNCHANGED <<gen, batch, work>>

AutoGenerateBackgroundCurrent ==
    \E confirm \in BOOLEAN :
        /\ ~gen.busy
        /\ CanSnapshot
        /\ LET e == auto_generate_background_current(E, confirm)
           IN  /\ Commit(e, "auto_generate_background_current")
               /\ gen' = IF Ok(e) /\ e.clock > editor.clock
                         THEN [busy |-> TRUE, page |-> CurPage(e).id]
                         ELSE gen
        /\ Disarm
        /\ UNCHANGED <<batch, work>>

\* The worker thread of auto_generate_background_current ends.
GenerateBg ==
    \E result \in BOOLEAN :
        /\ gen.busy
        /\ result => editor.uid < MaxLayers
        /\ Commit(generate_bg(editor, gen.page, result),
                  IF result THEN "generate_bg" ELSE "generate_bg_failed")
        /\ gen' = Idle
        /\ UNCHANGED <<batch, before, work>>

\* The AI replace request on a selection of the current page.  The progress
\* dialog holds the grab (ai_replace.py:309-313) until the worker has ended,
\* so no other handler runs between the request and its outcome.
ExecuteAiReplace ==
    \E result \in BOOLEAN :
        /\ editor.pages # <<>>
        /\ result => editor.uid < MaxLayers
        /\ LET s == execute_ai_replace(E)
           IN  Commit(IF Ok(s) THEN process_in_thread(s, result) ELSE s,
                      IF Ok(s) /\ ~result THEN "execute_ai_replace_failed"
                      ELSE "execute_ai_replace")
        /\ Disarm
        /\ UNCHANGED <<gen, batch, work>>

AutoGenerateBackgroundAll ==
    \E confirm \in BOOLEAN :
        /\ ~batch.busy
        /\ CanSnapshot
        /\ LET e == auto_generate_background_all(E, confirm)
           IN  /\ Commit(e, "auto_generate_background_all")
               /\ batch' = IF Ok(e) /\ e.clock > editor.clock
                           THEN [NoBatch EXCEPT
                                    !.busy = TRUE,
                                    !.todo = {e.pages[i].id : i \in
                                        {j \in 1..Len(e.pages) :
                                            e.pages[j].text_boxes # <<>>}}]
                           ELSE batch
        /\ Disarm
        /\ UNCHANGED <<gen, work>>

\* One iteration of the batch worker's loop.
GenerateAllBg ==
    \E result \in {"ok", "none", "raise"} :
        /\ batch.busy
        /\ ~batch.orphan
        /\ batch.pos < Len(editor.pages)
        /\ result = "ok" => editor.uid < MaxLayers
        /\ Commit(generate_all_bg(editor, batch.pos, result), "generate_all_bg")
        /\ batch' = CountPage(batch, editor, batch.pos, result)
        /\ UNCHANGED <<gen, before, work>>

\* The loop is over: the worker posts load_current_page to the UI thread.
GenerateAllBgDone ==
    /\ batch.busy
    /\ batch.orphan \/ batch.pos >= Len(editor.pages)
    /\ Commit(load_current_page(E), "generate_all_bg_done")
    /\ batch' = NoBatch
    /\ Disarm
    /\ UNCHANGED <<gen, work>>

GoToPage ==
    \E index \in 0..MaxPages :
        /\ Commit(go_to_page(E, index), "go_to_page")
        /\ Disarm
        /\ UNCHANGED <<gen, batch, work>>

PrevPage ==
    /\ Commit(prev_page(E), "prev_page")
    /\ Disarm
    /\ UNCHANGED <<gen, batch, work>>

NextPage ==
    /\ Commit(next_page(E), "next_page")
    /\ Disarm
    /\ UNCHANGED <<gen, batch, work>>

DeletePage ==
    \E page_index \in 0..(Len(editor.pages) - 1), confirm \in BOOLEAN :
        /\ LET e == delete_page(E, page_index, confirm)
           IN  Commit(e, "delete_page") /\ KeepGen(e)
        /\ Disarm
        /\ UNCHANGED <<batch, work>>

Undo ==
    \E exists \in BOOLEAN :
        /\ Commit(undo(E, exists), "undo")
        /\ before' = IF before.st = "armed"
                     THEN [before EXCEPT !.st = "undone"] ELSE NotArmed
        /\ UNCHANGED <<gen, batch, work>>

Redo ==
    \E exists \in BOOLEAN :
        /\ Commit(redo(E, exists), "redo")
        /\ Disarm
        /\ UNCHANGED <<gen, batch, work>>

\* Every handler but the import dialog and the AI replace request.
Handlers ==
    \/ FinishDrawing
    \/ DeleteSelectedBox
    \/ OnTextChange
    \/ OnPositionChange
    \/ ToggleSelectedLayer
    \/ DeleteSelectedLayer
    \/ SetPageBackground
    \/ ClearPageBackground
    \/ HandleInpaintRelease
    \/ AutoGenerateBackgroundCurrent
    \/ GenerateBg
    \/ AutoGenerateBackgroundAll
    \/ GenerateAllBg
    \/ GenerateAllBgDone
    \/ GoToPage
    \/ PrevPage
    \/ NextPage
    \/ DeletePage
    \/ Undo
    \/ Redo

\* Sessions of up to MainPages pages.
Next == LoadMultipleImages \/ Handlers \/ ExecuteAiReplace

Spec == Init /\ [][Next]_vars

\* Sessions of up to MaxPages pages.
NextPages == LoadManyImages \/ Handlers

SpecPages == Init /\ [][NextPages]_vars

\* Sessions that are edited, saved as and replaced by project files.
NextProject ==
    \/ LoadProject
    \/ LoadMultipleImages
    \/ FinishDrawing
    \/ OnTextChange
    \/ GoToPage
    \/ DeletePage
    \/ Undo
    \/ Redo

SpecProject == Init /\ [][NextProject]_vars

\* ------------------------------------------- the layer panel's actions
\* A layer comes from add_image_layer (unlocked) or from
\* import_layer_from_file (locked).
InitLayers ==
    /\ InitEditor
    /\ panel \in {NewPanel(locked) : locked \in BOOLEAN}
    /\ call = NoCall
    /\ ocr = NoOcr
    /\ export = NoExport
    /\ mask = NoMask

P == [panel EXCEPT !.status = ""]
CanSave == panel.saves < MaxSaves

PanelStep(p, op) ==
    /\ panel' = p
    /\ last' = op
    /\ UNCHANGED <<editor, gen, batch, before, work, call, ocr, export, mask>>

ToggleSelectedLayerLock ==
    /\ CanSave
    /\ PanelStep(toggle_selected_layer_lock(P), "toggle_selected_layer_lock")

ApplyLayerTransformFromUi ==
    \E xy \in Positions :
        /\ CanSave
        /\ PanelStep(_apply_layer_transform_from_ui(P, xy[1], xy[2]),
                     "_apply_layer_transform_from_ui")

OnLayerScaleChange ==
    \E value \in ScalePcts :
        /\ CanSave
        /\ PanelStep(_on_layer_scale_change(P, value), "_on_layer_scale_change")

ResetSelectedLayerCrop ==
    /\ CanSave
    /\ PanelStep(reset_selected_layer_crop(P), "reset_selected_layer_crop")

CropSelectedLayer ==
    /\ ~panel.crop_win
    /\ PanelStep(crop_selected_layer(P), "crop_selected_layer")

ApplyCrop ==
    \E rect \in Crops \cup {[x0 |-> 2, y0 |-> 2, x1 |-> 2, y1 |-> 2]} :
        /\ panel.crop_win
        /\ CanSave
        /\ PanelStep(apply_crop(P, rect), "apply_crop")

OnCanvasPress ==
    \E inside \in BOOLEAN :
        /\ ~panel.is_layer_dragging
        /\ CanSave
        /\ PanelStep(on_canvas_press(P, inside), "on_canvas_press")

OnCanvasDrag ==
    \E to \in Positions :
        PanelStep(on_canvas_drag(P, to[1] - panel.origin[1],
                                 to[2] - panel.origin[2]), "on_canvas_drag")

OnCanvasRelease ==
    PanelStep(on_canvas_release(P), "on_canvas_release")

NextLayers ==
    \/ ToggleSelectedLayerLock
    \/ ApplyLayerTransformFromUi
    \/ OnLayerScaleChange
    \/ ResetSelectedLayerCrop
    \/ CropSelectedLayer
    \/ ApplyCrop
    \/ OnCanvasPress
    \/ OnCanvasDrag
    \/ OnCanvasRelease

SpecLayers == InitLayers /\ [][NextLayers]_vars

\* ------------------------------------------------------ the compositor
\* Images are maps from the pixels of the page to colours; a colour is the
\* sequence of the paints that show through, topmost first.  A layer's own
\* image has one colour, the layer's name, and the native size w x h.
PagePixels == (0..2) \X (0..1)
BaseImage == [px \in PagePixels |-> <<"base">>]
Max(a, b) == IF a >= b THEN a ELSE b
Min(a, b) == IF a <= b THEN a ELSE b

\* Python's round(n / d) for n >= 0, d > 0: halves go to the even neighbour.
Round(n, d) ==
    LET q == n \div d
        r == n % d
    IN  IF 2 * r < d THEN q
        ELSE IF 2 * r > d THEN q + 1
        ELSE IF q % 2 = 0 THEN q ELSE q + 1

\* The size of the layer image that no crop clamps: the crop as it is.
UnclampedCrop(crop, w, h) ==
    IF crop # NoCrop /\ crop.x1 > crop.x0 /\ crop.y1 > crop.y0
    THEN <<crop.x1 - crop.x0, crop.y1 - crop.y0>>
    ELSE <<w, h>>

\* The size of the layer image after the crop: the rectangle is clamped to
\* the image on each axis and ignored when nothing is left of it.
ClampCrop(crop, w, h) ==
    IF crop = NoCrop THEN <<w, h>>
    ELSE LET x0 == Max(0, Min(w, crop.x0))
             y0 == Max(0, Min(h, crop.y0))
             x1 == Max(0, Min(w, crop.x1))
             y1 == Max(0, Min(h, crop.y1))
         IN  IF x1 > x0 /\ y1 > y0 THEN <<x1 - x0, y1 - y0>> ELSE <<w, h>>

LayerScale(l) == IF l.scale <= 0 THEN 100 ELSE l.scale

\* The overlay the compositor pastes for a layer: its size.
OverlaySize(l) ==
    LET c == ClampCrop(l.crop, l.w, l.h)
    IN  IF LayerScale(l) # 100
        THEN <<Max(1, Round(c[1] * LayerScale(l), 100)),
               Max(1, Round(c[2] * LayerScale(l), 100))>>
        ELSE c

\* base_rgba.paste(overlay, (x, y), overlay)
Paste(img, l) ==
    IF ~l.visible \/ ~l.path \/ l.opacity = 0 THEN img
    ELSE [px \in PagePixels |->
            IF /\ l.x <= px[1] /\ px[1] < l.x + OverlaySize(l)[1]
               /\ l.y <= px[2] /\ px[2] < l.y + OverlaySize(l)[2]
            THEN IF l.opacity = 100 THEN <<l.name>>
                 ELSE <<l.name>> \o img[px]
            ELSE img[px]]

RECURSIVE PaintForward(_, _, _)
PaintForward(img, layers, k) ==
    IF k > Len(layers) THEN img
    ELSE PaintForward(Paste(img, layers[k]), layers, k + 1)

RECURSIVE PaintReversed(_, _, _)
PaintReversed(img, layers, k) ==
    IF k = 0 THEN img
    ELSE PaintReversed(Paste(img, layers[k]), layers, k - 1)

\* The compositor that paints the list from its first element on.
composited_first_to_last(layers) == PaintForward(BaseImage, layers, 1)

get_page_composited_background(layers) ==
    PaintReversed(BaseImage, layers, Len(layers))

_layer_bbox(l) ==
    IF ~l.path THEN <<>>
    ELSE LET c == ClampCrop(l.crop, l.w, l.h)
             w == Max(1, Round(c[1] * LayerScale(l), 100))
             h == Max(1, Round(c[2] * LayerScale(l), 100))
         IN  <<l.x, l.y, l.x + w, l.y + h>>

\* The layers the compositor is given: 2 x 2 images named A and B.
OversizeCrop(w, h) == [x0 |-> -100, y0 |-> -100, x1 |-> w + 100, y1 |-> h + 100]
LayerCrops ==
    {NoCrop, OversizeCrop(2, 2), [x0 |-> 1, y0 |-> 0, x1 |-> 2, y1 |-> 2],
     [x0 |-> 1, y0 |-> 1, x1 |-> 1, y1 |-> 2]}
Layers(name) ==
    [name : {name}, path : BOOLEAN, w : {2}, h : {2}, x : {0, 1}, y : {0},
     scale : {0, 50, 100}, crop : LayerCrops, opacity : {50, 100},
     visible : BOOLEAN]

InitCompose ==
    /\ InitEditor
    /\ panel = NewPanel(FALSE)
    /\ call \in [fn : {"compose"}, layers : {<<a, b>> : a \in Layers("A"), b \in Layers("B")},
                 out : {<<>>}, bbox : {<<>>}]
    /\ ocr = NoOcr
    /\ export = NoExport
    /\ mask = NoMask

PureStep(c, op) ==
    /\ call' = c
    /\ last' = op
    /\ UNCHANGED <<editor, gen, batch, before, work, panel, ocr, export,
                   mask>>

GetPageCompositedBackground ==
    /\ call.fn = "compose"
    /\ call.out = <<>>
    /\ PureStep([call EXCEPT !.out = get_page_composited_background(call.layers)],
                "get_page_composited_background")

LayerBbox ==
    /\ call.fn = "compose"
    /\ call.bbox = <<>>
    /\ PureStep([call EXCEPT !.bbox = [k \in 1..Len(call.layers) |->
                                          _layer_bbox(call.layers[k])]],
                "_layer_bbox")

NextCompose == GetPageCompositedBackground \/ LayerBbox

SpecCompose == InitCompose /\ [][NextCompose]_vars

\* ----------------------------------------------------- the OCR workers
\* Each worker writes the image to a NamedTemporaryFile(delete=False), calls
\* ocr.predict(temp_path) and goes on with what predict gave: "texts",
\* "nothing", or "raise" for an exception.
MaxTemp == 4
OcrPages == 2

NamedTemporaryFile(o, w) ==
    [o EXCEPT !.made = @ + 1, !.temp = @ \cup {o.made + 1},
              !.held[w] = o.made + 1]
remove(o, w) == [o EXCEPT !.temp = @ \ {o.held[w]}]

\* auto_detect_text_regions.detect after predict: the file is removed on
\* the line after the call; the handler of the exception does not remove it.
detect(o, outcome) ==
    [(IF outcome = "raise" THEN o ELSE remove(o, "detect"))
        EXCEPT !.held["detect"] = 0]

\* One iteration of auto_detect_all_pages.detect_all after predict.
detect_all(o, outcome) ==
    [(IF outcome = "raise" THEN o ELSE remove(o, "detect_all"))
        EXCEPT !.held["detect_all"] = 0, !.pos = @ + 1]

\* ocr_single_box.ocr_task after predict: removed on both paths.
ocr_task(o, outcome) == [remove(o, "ocr_task") EXCEPT !.held["ocr_task"] = 0]

OcrStep(o, op) ==
    /\ ocr' = o
    /\ last' = op
    /\ UNCHANGED <<editor, gen, batch, before, work, panel, call, export,
                   mask>>

\* A worker reaches ocr.predict.
Predict ==
    \E w \in Workers :
        /\ ocr.held[w] = 0
        /\ ocr.made < MaxTemp
        /\ w = "detect_all" => ocr.pos \in 0..(OcrPages - 1)
        /\ OcrStep(NamedTemporaryFile(ocr, w), "predict")

AutoDetectAllPages ==
    /\ ocr.pos = -1
    /\ OcrStep([ocr EXCEPT !.pos = 0], "auto_detect_all_pages")

Detect ==
    \E outcome \in {"texts", "nothing", "raise"} :
        /\ ocr.held["detect"] # 0
        /\ OcrStep(detect(ocr, outcome), "detect")

DetectAll ==
    \E outcome \in {"texts", "nothing", "raise"} :
        /\ ocr.held["detect_all"] # 0
        /\ OcrStep(detect_all(ocr, outcome), "detect_all")

DetectAllDone ==
    /\ ocr.pos = OcrPages
    /\ OcrStep([ocr EXCEPT !.pos = -1], "detect_all_done")

OcrTask ==
    \E outcome \in {"texts", "nothing", "raise"} :
        /\ ocr.held["ocr_task"] # 0
        /\ OcrStep(ocr_task(ocr, outcome), "ocr_task")

NextOcr ==
    \/ Predict
    \/ AutoDetectAllPages
    \/ Detect
    \/ DetectAll
    \/ DetectAllDone
    \/ OcrTask

SpecOcr == Init /\ [][NextOcr]_vars

\* ----------------------- editor_main.py: all-pages detection and the pages
\* The worker of auto_detect_all_pages together with the handlers of the UI
\* thread that run while it works. The editor starts with OcrPages imported
\* pages; ocr.pos is the position of the worker's loop over editor.pages.

\* new_boxes of one page (5255-5288): the dicts built from the OCR result.
Detected == <<[text |-> "OCR", width |-> 20]>>

\* auto_detect_all_pages (5214-5219), the part run by the UI thread.
auto_detect_all_pages(e) ==
    IF e.pages = <<>> THEN Notify(e, "import first")
    ELSE save_current_page(e)

\* detect_all (5222-5292), one iteration on page i (0-based): only an OCR
\* result with boxes reaches the assignment page["text_boxes"] = new_boxes.
detect_all_page(e, i, outcome) ==
    IF outcome = "texts" THEN [e EXCEPT !.pages[i + 1].text_boxes = Detected]
    ELSE e

InitImported ==
    /\ editor = Normalize(load_multiple_images(NewEditor, OcrPages, "append"))
    /\ gen = Idle
    /\ batch = NoBatch
    /\ last = "init"
    /\ before = NotArmed
    /\ work = 0
    /\ panel = NewPanel(FALSE)
    /\ call = NoCall
    /\ ocr = NoOcr
    /\ export = NoExport
    /\ mask = NoMask

StartDetectAll ==
    /\ ocr.pos = -1
    /\ LET e == auto_detect_all_pages(E)
       IN  /\ editor' = Normalize(e)
           /\ ocr' = IF Ok(e) /\ e.pages # <<>> THEN [ocr EXCEPT !.pos = 0]
                      ELSE ocr
    /\ last' = "auto_detect_all_pages"
    /\ Disarm
    /\ UNCHANGED <<gen, batch, work, panel, call, export, mask>>

\* One iteration of the worker thread.
DetectAllPage ==
    \E outcome \in {"texts", "nothing", "raise"} :
        /\ ocr.pos \in 0..(Len(editor.pages) - 1)
        /\ ocr.made < MaxTemp
        /\ editor' = Normalize(detect_all_page(editor, ocr.pos, outcome))
        /\ ocr' = detect_all(NamedTemporaryFile(ocr, "detect_all"), outcome)
        /\ last' = "detect_all"
        /\ UNCHANGED <<gen, batch, before, work, panel, call, export, mask>>

\* root.after(0, self.load_current_page) (5294), run by the UI thread.
DetectAllLoad ==
    /\ ocr.pos >= 0
    /\ ocr.pos >= Len(editor.pages)
    /\ editor' = Normalize(load_current_page(E))
    /\ ocr' = [ocr EXCEPT !.pos = -1]
    /\ last' = "detect_all_done"
    /\ Disarm
    /\ UNCHANGED <<gen, batch, work, panel, call, export, mask>>

NextDetectAll ==
    \/ StartDetectAll
    \/ DetectAllPage
    \/ DetectAllLoad
    \/ FinishDrawing
    \/ OnTextChange
    \/ GoToPage

SpecDetectAll == InitImported /\ [][NextDetectAll]_vars

\* ------------------------------------------------- features/export.py
\* export_as_pdf (150-166) and do_export_images (390-392), the part run by
\* the UI thread: nothing of the editor is written before the worker starts.
export_as_pdf(e) ==
    IF e.pages = <<>> THEN Notify(e, "nothing to export") ELSE e

\* The export dialog with a path chosen; kind is the menu entry.
StartExport ==
    \E kind \in {"pdf", "images"} :
        /\ export.st # "running"
        /\ ~export.pending
        /\ LET e == export_as_pdf(E)
           IN  /\ editor' = Normalize(e)
               /\ export' = IF e.pages = <<>> THEN export
                             ELSE [st |-> "running", pending |-> FALSE,
                                   pos |-> -1, cur |-> e.cur,
                                   boxes |-> e.text_boxes, out |-> <<>>]
        /\ last' = "export"
        /\ Disarm
        /\ UNCHANGED <<gen, batch, work, panel, call, ocr, mask>>

\* export_pdf / export_images, first statement (169, 396):
\* editor.root.after(0, editor.save_current_page) queues the call for the UI
\* thread and returns.
ExportPostSave ==
    /\ export.st = "running"
    /\ export.pos = -1
    /\ export' = [export EXCEPT !.pending = TRUE, !.pos = 0]
    /\ last' = "export_post"
    /\ UNCHANGED <<editor, gen, batch, before, work, panel, call, ocr, mask>>

\* The UI thread runs the queued save_current_page.
ExportSave ==
    /\ export.pending
    /\ editor' = Normalize(save_current_page(E))
    /\ export' = [export EXCEPT !.pending = FALSE]
    /\ last' = "export_save"
    /\ Disarm
    /\ UNCHANGED <<gen, batch, work, panel, call, ocr, mask>>

\* One iteration of the worker's loop over editor.pages (173-189, 398-414):
\* the text boxes drawn on the page are page["text_boxes"].
ExportPage ==
    /\ export.st = "running"
    /\ export.pos \in 0..(Len(editor.pages) - 1)
    /\ export' = [export EXCEPT
                      !.out = Append(@, editor.pages[export.pos + 1].text_boxes),
                      !.pos = @ + 1]
    /\ last' = "export_page"
    /\ UNCHANGED <<editor, gen, batch, before, work, panel, call, ocr, mask>>

\* The loop has ended and the file is written.
ExportDone ==
    /\ export.st = "running"
    /\ export.pos >= 0
    /\ export.pos >= Len(editor.pages)
    /\ export' = [export EXCEPT !.st = "done"]
    /\ last' = "export_done"
    /\ UNCHANGED <<editor, gen, batch, before, work, panel, call, ocr, mask>>

NextExport ==
    \/ StartExport
    \/ ExportPostSave
    \/ ExportSave
    \/ ExportPage
    \/ ExportDone
    \/ FinishDrawing
    \/ OnTextChange
    \/ GoToPage

SpecExport == InitImported /\ [][NextExport]_vars

\* ------------------- editor_main.py: the mask of the current-page repair
\* generate_bg (7016-7021): create_mask_from_boxes(img.size, self.text_boxes)
\* reads the buffers of the page that is current when the worker gets there.
create_mask_from_boxes(e) ==
    [made |-> TRUE, page |-> IF InRange(e) THEN CurPage(e).id ELSE 0]

CreateMaskFromBoxes ==
    /\ gen.busy
    /\ ~mask.made
    /\ mask' = create_mask_from_boxes(editor)
    /\ last' = "create_mask_from_boxes"
    /\ UNCHANGED <<editor, gen, batch, before, work, panel, call, ocr, export>>

\* generate_bg (7023-7063) after the mask: the request and its outcome.
GenerateBgFromMask ==
    \E result \in BOOLEAN :
        /\ gen.busy
        /\ mask.made
        /\ result => editor.uid < MaxLayers
        /\ editor' = Normalize(generate_bg(editor, gen.page, result))
        /\ last' = IF result THEN "generate_bg" ELSE "generate_bg_failed"
        /\ gen' = Idle
        /\ mask' = NoMask
        /\ UNCHANGED <<batch, before, work, panel, call, ocr, export>>

NextInpaint ==
    \/ AutoGenerateBackgroundCurrent
    \/ CreateMaskFromBoxes
    \/ GenerateBgFromMask
    \/ FinishDrawing
    \/ OnTextChange
    \/ GoToPage

SpecInpaint == InitImported /\ [][NextInpaint]_vars

\* ------------------------------------------------- core/font_fit.py
\* A text is its number of characters; with a font that resolves, a text of
\* n characters set at px pixels is n * px / 2 wide and px high, so the fit
\* test is monotone in the size.
Defaults ==
    [min_pt |-> 8, max_pt |-> 200, dpi |-> 96, padding_x_px |-> 6,
     padding_y_px |-> 2]
avail_w(box_w_px) == Max(1, box_w_px - Defaults.padding_x_px)
avail_h(box_h_px) == Max(1, box_h_px - Defaults.padding_y_px)

fits(text, box_w_px, box_h_px, pt) ==
    LET px == Max(1, Round(pt * Defaults.dpi, 72))
    IN  (text * px) \div 2 <= avail_w(box_w_px) /\ px <= avail_h(box_h_px)

\* hi = min(max_pt, max(min_pt, int(avail_h * 72 / dpi * 1.8)))
SearchTop(box_h_px) ==
    Min(Defaults.max_pt,
        Max(Defaults.min_pt,
            (avail_h(box_h_px) * 72 * 18) \div (Defaults.dpi * 10)))

\* The loop body that forgets the size that fitted.
SearchStepForgets(c) ==
    LET mid == (c.lo + c.hi) \div 2
    IN  IF fits(c.text, c.box_w_px, c.box_h_px, mid)
        THEN [c EXCEPT !.lo = mid + 1]
        ELSE [c EXCEPT !.hi = mid - 1]

\* The body of "for _ in range(12)".
SearchStep(c) ==
    LET mid == (c.lo + c.hi) \div 2
    IN  IF fits(c.text, c.box_w_px, c.box_h_px, mid)
        THEN [c EXCEPT !.best = mid, !.lo = mid + 1]
        ELSE [c EXCEPT !.hi = mid - 1]

\* fit_font_size_pt up to the loop: the early returns, or lo, hi and best.
FitStart(c) ==
    IF c.text = 0 \/ c.box_w_px <= 0 \/ c.box_h_px <= 0
    THEN [c EXCEPT !.stage = "returned",
                   !.result = Max(Defaults.min_pt, Min(16, Defaults.max_pt))]
    ELSE IF ~c.font
    THEN [c EXCEPT !.stage = "returned",
                   !.result = Max(Defaults.min_pt,
                                  Min((avail_h(c.box_h_px) * 72 * 95)
                                          \div (Defaults.dpi * 100),
                                      Defaults.max_pt))]
    ELSE [c EXCEPT !.stage = "loop", !.lo = Defaults.min_pt,
                   !.hi = SearchTop(c.box_h_px), !.best = Defaults.min_pt]

RECURSIVE FitRun(_)
FitRun(c) ==
    IF c.stage = "called" THEN FitRun(FitStart(c))
    ELSE IF c.stage = "loop" /\ c.iter < 12
    THEN FitRun([SearchStep(c) EXCEPT !.iter = @ + 1])
    ELSE IF c.stage = "loop"
    THEN [c EXCEPT !.stage = "returned",
                   !.result = Max(Defaults.min_pt, Min(c.best, Defaults.max_pt))]
    ELSE c

FitCall(text, box_w_px, box_h_px, font) ==
    [fn |-> "fit", text |-> text, box_w_px |-> box_w_px,
     box_h_px |-> box_h_px, font |-> font, stage |-> "called", lo |-> 0,
     hi |-> 0, best |-> 0, iter |-> 0, result |-> 0]

fit_font_size_pt(text, box_w_px, box_h_px, font) ==
    FitRun(FitCall(text, box_w_px, box_h_px, font)).result

FitTexts == {0, 1, 4, 12}
FitWidths == {0, 7, 20, 40, 80, 160, 400}
FitHeights == {0, 4, 12, 30, 60, 152}

InitFit ==
    /\ InitEditor
    /\ panel = NewPanel(FALSE)
    /\ ocr = NoOcr
    /\ export = NoExport
    /\ mask = NoMask
    /\ call \in {FitCall(t, w, h, f) : t \in FitTexts, w \in FitWidths,
                                       h \in FitHeights, f \in BOOLEAN}

FitFontSizePt ==
    /\ call.fn = "fit" /\ call.stage = "called"
    /\ PureStep(FitStart(call), "fit_font_size_pt")

FitIteration ==
    /\ call.fn = "fit" /\ call.stage = "loop" /\ call.iter < 12
    /\ PureStep([SearchStep(call) EXCEPT !.iter = @ + 1], "fits")

FitReturn ==
    /\ call.fn = "fit" /\ call.stage = "loop" /\ call.iter = 12
    /\ PureStep(FitRun(call), "return")

NextFit == FitFontSizePt \/ FitIteration \/ FitReturn

SpecFit == InitFit /\ [][NextFit]_vars

\* ------------------------------------------------------------ properties
\* The history cursor as a position of the sequence, and the entry under it.
Cursor(e) == e.history_index + 1
\* A handler that called save_state has run.
SaveStep == editor'.clock = editor.clock + 1
\* An undo or redo that moved the cursor and so restored an entry.
RestoreStep ==
    /\ last' \in {"undo", "redo"}
    /\ editor'.history_index # editor.history_index
Restored == editor'.history[Cursor(editor')]
Timestamps(h) == {h[j].ts : j \in 1..Len(h)}
\* Everything of the editor but the status line and the exception.
Visible(e) == [e EXCEPT !.err = "", !.notice = ""]
\* The buffers hold the stored state of pages[current_page_index].
BuffersReflectPage(e) ==
    /\ InRange(e)
    /\ e.text_boxes = FromDicts(CurPage(e).text_boxes)
    /\ e.clean_bg_path = CurPage(e).bg_path
    /\ e.layers = CurPage(e).lid

\* C1: Undo round-trip, N = 1: after a handler that calls save_state and then
\* changes the text boxes or layers of the page, one undo() leaves the page
\* state (text boxes, layers) equal to the state before the handler.
UndoRoundTrip ==
    before.st = "undone" =>
        PageState(editor) = [text_boxes |-> before.text_boxes,
                             layers |-> before.layers]

\* C2: History truncation law: a save_state keeps of the old history only
\* entries at or before the cursor (every entry after it is discarded) and
\* appends the new entry under the cursor, and a redo() in the state a
\* save_state and its mutation leave changes neither history_index nor any
\* page or buffer state.
HistoryTruncationLaw ==
    [][/\ SaveStep =>
            LET h == editor.history
                h2 == editor'.history
            IN  /\ h2 # <<>>
                /\ Cursor(editor') = Len(h2)
                /\ h2[Len(h2)].ts = editor'.clock
                /\ Timestamps(h2) \ {editor'.clock}
                       \subseteq {h[j].ts : j \in 1..Cursor(editor)}
       /\ (last' = "redo" /\ Cursor(editor) = Len(editor.history)) =>
            Visible(editor') = Visible(editor)
      ]_vars

\* A save_state that found the cursor before the end (an undo had moved it)
\* left a gap in the timestamps, and a redo was then refused.
TruncationWitness ==
    /\ last = "redo"
    /\ editor.notice = "cannot redo"
    /\ \E j \in 1..(Len(editor.history) - 1) :
           editor.history[j + 1].ts > editor.history[j].ts + 1

\* C3: Capacity bound: len(history) never exceeds max_history, and a
\* save_state that finds the history full up to the cursor removes the
\* oldest entry (index 0): the entries kept are the most recent ones in
\* their order.
CapacityBound ==
    [][/\ Len(editor.history) <= max_history
       /\ Len(editor'.history) <= max_history
       /\ (SaveStep /\ Cursor(editor) = max_history) =>
            /\ Len(editor.history) = max_history
            /\ SubSeq(editor'.history, 1, max_history - 1)
                   = SubSeq(editor.history, 2, max_history)
            /\ editor'.history[max_history].ts = editor'.clock
      ]_vars

\* More save_state calls than max_history: the first entry is gone.
EvictionWitness ==
    /\ Len(editor.history) = max_history
    /\ editor.clock > max_history
    /\ editor.history[1].ts = editor.clock - max_history + 1

\* C4: Navigation invariant: after go_to_page, prev_page, next_page or
\* delete_page returns, either the call changed nothing (target out of
\* range, boundary, refusal) or the buffers are the stored state of
\* pages[current_page_index]; and a go_to_page, prev_page or next_page that
\* switched has written the buffers back into the page that was current.
NavigationInvariant ==
    [][(/\ last' \in {"go_to_page", "prev_page", "next_page", "delete_page"}
        /\ editor'.err = ""
        /\ Visible(editor') # Visible(editor)) =>
            /\ BuffersReflectPage(editor')
            /\ (last' # "delete_page" /\ InRange(editor)) =>
                   /\ Len(editor'.pages) = Len(editor.pages)
                   /\ editor'.pages[editor.cur + 1].text_boxes
                          = ToDicts(editor.text_boxes)
                   /\ editor'.pages[editor.cur + 1].bg_path
                          = editor.clean_bg_path
      ]_vars

\* C5: Restore ordering across pages: an undo()/redo() that restores an
\* entry of another page has saved the buffers into the page that was
\* current, made the entry's page the current page, and applied the payload
\* on that page.
RestoreOrdering ==
    [][(RestoreStep /\ Restored.page_index # editor.cur) =>
            /\ editor'.err = ""
            /\ editor'.cur = Restored.page_index
            /\ InRange(editor')
            /\ InRange(editor) =>
                   editor'.pages[editor.cur + 1].text_boxes
                       = ToDicts(editor.text_boxes)
            /\ Restored.type = "textboxes" =>
                   editor'.text_boxes = FromDicts(Restored.text_boxes)
            /\ Restored.type = "layers" =>
                   PageLayers(editor', editor'.cur + 1) = Restored.layers
      ]_vars

\* C6: Snapshot before mutation: a handler that changes the text boxes or the
\* layers of the page has called save_state, and the entry it appended holds
\* the state before the change.
SnapshotBeforeMutation ==
    [][(/\ last' \in {"finish_drawing", "delete_selected_box",
                      "on_text_change", "on_position_change",
                      "toggle_selected_layer", "delete_selected_layer"}
        /\ PageState(editor') # PageState(editor)) =>
            /\ SaveStep
            /\ LET st == editor'.history[Len(editor'.history)]
               IN  \/ st.type = "textboxes"
                      /\ st.text_boxes = ToDicts(editor.text_boxes)
                   \/ st.type = "layers"
                      /\ st.layers = PageState(editor).layers
      ]_vars

\* C7: inpaint_stroke payload: the entry recorded when a stroke is completed
\* holds the stroke and, as mask_state, the stroke list as it was before the
\* stroke was drawn.
InpaintStrokePayload ==
    [][(last' = "handle_inpaint_release" /\ SaveStep) =>
            LET st == editor'.history[Len(editor'.history)]
            IN  /\ st.type = "inpaint_stroke"
                /\ st.stroke = editor'.inpaint_strokes[Len(editor'.inpaint_strokes)]
                /\ st.mask_state = editor.inpaint_strokes
      ]_vars

\* C8: pages_layers restore guard: restoring a pages_layers entry gives every
\* page the snapshot's layer list of the same index when the page counts are
\* equal and changes no page's layer list when they differ; in both cases
\* editor.layers is afterwards the layer list of pages[current_page_index].
PagesLayersRestoreGuard ==
    [][(RestoreStep /\ Restored.type = "pages_layers") =>
            LET n == Len(Restored.pages_layers)
            IN  /\ Len(editor'.pages) = Len(editor.pages)
                /\ n = Len(editor.pages) =>
                       \A i \in 1..n :
                           PageLayers(editor', i) = Restored.pages_layers[i]
                /\ n # Len(editor.pages) =>
                       \A i \in 1..Len(editor.pages) :
                           PageLayers(editor', i) = PageLayers(editor, i)
                /\ editor'.err = ""
                /\ InRange(editor')
                /\ editor'.layers = CurPage(editor').lid
      ]_vars

\* C9: delete_page index adjustment: a confirmed delete_page(i) on two or more
\* pages removes exactly page i and leaves current_page_index valid; when i
\* was not the current page the same page is still the current one.
DeletePageIndexAdjustment ==
    [][(last' = "delete_page" /\ Len(editor'.pages) # Len(editor.pages)) =>
            LET ids == [j \in 1..Len(editor.pages) |-> editor.pages[j].id]
                ids2 == [j \in 1..Len(editor'.pages) |-> editor'.pages[j].id]
            IN  /\ Len(editor.pages) >= 2
                /\ \E i \in 1..Len(ids) :
                       /\ ids2 = SubSeq(ids, 1, i - 1) \o SubSeq(ids, i + 1, Len(ids))
                       /\ (InRange(editor) /\ editor.cur + 1 # i) =>
                              ids2[editor'.cur + 1] = ids[editor.cur + 1]
                       /\ (InRange(editor) /\ editor.cur + 1 = i) =>
                              editor'.cur = IF i = Len(ids) THEN i - 2 ELSE i - 1
                /\ InRange(editor')
      ]_vars

\* A page before the current one was deleted and the index was decremented.
DeleteBeforeCurrentWitness ==
    /\ last = "delete_page"
    /\ editor.notice = "page deleted"
    /\ Len(editor.pages) = 2
    /\ editor.cur = 1
    /\ editor.pages[1].id = 2
    /\ editor.pages[2].id = 3

\* C10: Minimum one page: delete_page on a session of one page changes
\* neither pages nor current_page_index nor the buffers, shows a warning and
\* raises nothing; no delete_page empties a page list that was not empty.
MinimumOnePage ==
    [][(last' = "delete_page" /\ editor.pages # <<>>) =>
            /\ editor'.pages # <<>>
            /\ Len(editor.pages) = 1 =>
                   /\ Visible(editor') = Visible(editor)
                   /\ editor'.notice = "at least one page"
                   /\ editor'.err = ""
      ]_vars

\* The only page was asked to be deleted, with unsaved boxes in the buffer.
RefusalWitness ==
    /\ last = "delete_page"
    /\ editor.notice = "at least one page"
    /\ Len(editor.pages) = 1
    /\ editor.text_boxes # <<>>

\* C11: Worker threads never mutate shared editor state: a step of a worker
\* thread (the repair worker of the current page, the batch worker) leaves
\* pages, their layer lists, the buffers and the history as they were; only
\* steps of the UI thread write them.
WorkersNeverMutate ==
    [][last' \in {"generate_bg", "generate_bg_failed", "generate_all_bg"} =>
            Visible(editor') = Visible(editor)]_vars

\* What the editor holds of the pages and the buffers: everything but the
\* history and the status line.
CoreState(e) ==
    [pages |-> e.pages, lists |-> e.lists, cur |-> e.cur,
     text_boxes |-> e.text_boxes, clean_bg_path |-> e.clean_bg_path,
     layers |-> e.layers, inpaint_strokes |-> e.inpaint_strokes]

\* C12: External service failure leaves core state unchanged: the step in
\* which an inpaint or AI replace request fails reports the failure and
\* changes no page, layer list, buffer or background reference, and issuing
\* the inpaint request changed none of them either (it only took the
\* snapshot for the undo).
ServiceFailureKeepsState ==
    [][/\ last' \in {"generate_bg_failed", "execute_ai_replace_failed"} =>
            /\ CoreState(editor') = CoreState(editor)
            /\ editor'.history = editor.history
            /\ editor'.notice \in {"repair failed", "AI replace failed"}
       /\ last' = "auto_generate_background_current" =>
            CoreState(editor') = CoreState(editor)
      ]_vars

\* An inpaint request of a page with a box has failed.
ServiceFailureWitness ==
    /\ last = "generate_bg_failed"
    /\ editor.notice = "repair failed"
    /\ editor.text_boxes # <<>>
    /\ editor.history # <<>>
    /\ editor.history[Len(editor.history)].type = "layers"

\* C13: Declined project load: a load_project that fails on a malformed file
\* (invalid JSON, a page entry without original_path) reports the error and
\* leaves pages, current_page_index and the buffers as they were.
DeclinedProjectLoad ==
    [][(last' = "load_project" /\ editor'.notice = "load failed") =>
            CoreState(editor') = CoreState(editor)]_vars

\* The transform of the selected layer.
Transform(p) ==
    [x |-> p.layer.x, y |-> p.layer.y, scale |-> p.layer.scale,
     crop |-> p.layer.crop]

\* C14: Locked layers reject transforms: while the layer is locked, every
\* attempt to change its position, scale or crop (the X/Y entry, the scale
\* slider, the crop dialog, reset crop, a canvas drag) is a no-op: x, y,
\* scale and crop stay, no history entry is appended, and a notice is shown.
LockedLayersRejectTransforms ==
    [][(/\ panel.layer.locked
        /\ last' \in {"_apply_layer_transform_from_ui",
                      "_on_layer_scale_change", "crop_selected_layer",
                      "apply_crop", "reset_selected_layer_crop",
                      "on_canvas_press", "on_canvas_drag"}) =>
            /\ Transform(panel') = Transform(panel)
            /\ panel'.saves = panel.saves
            /\ panel'.status = LockedNotice]_vars

\* Layer l paints pixel px with full opacity.
Covers(l, px) ==
    /\ l.visible /\ l.path /\ l.opacity = 100
    /\ l.x <= px[1] /\ px[1] < l.x + OverlaySize(l)[1]
    /\ l.y <= px[2] /\ px[2] < l.y + OverlaySize(l)[2]

\* C15: Layer order: the compositor paints the list from its last element to
\* its first, so where two visible, fully opaque layers overlap, the pixel
\* shows the colour of the one at the lower list index: with [A, B], A.
LayerOrder ==
    (call.fn = "compose" /\ call.out # <<>>) =>
        \A px \in PagePixels :
            (Covers(call.layers[1], px) /\ Covers(call.layers[2], px)) =>
                call.out[px] = <<"A">>

\* Two opaque layers that overlap have been composited.
LayerOrderWitness ==
    /\ call.fn = "compose" /\ call.out # <<>>
    /\ \E px \in PagePixels :
          /\ Covers(call.layers[1], px) /\ Covers(call.layers[2], px)
          /\ call.out[px] = <<"A">>

\* A layer as it is without its crop.
Uncropped(layers) == [k \in 1..Len(layers) |-> [layers[k] EXCEPT !.crop = NoCrop]]
HasOversizeCrop(layers) ==
    \E k \in 1..Len(layers) : layers[k].crop = OversizeCrop(layers[k].w, layers[k].h)
OnlyOversizeCrops(layers) ==
    \A k \in 1..Len(layers) :
        layers[k].crop \in {NoCrop, OversizeCrop(layers[k].w, layers[k].h)}

\* C16: Crop clamp: a crop rectangle is clamped to the layer image on each
\* axis before use, so layers cropped to {-100, -100, w + 100, h + 100} are
\* composited, and bounded by _layer_bbox, exactly as the same layers with no
\* crop are.
CropClamp ==
    (call.fn = "compose" /\ OnlyOversizeCrops(call.layers)) =>
        /\ call.out # <<>> =>
              call.out = get_page_composited_background(Uncropped(call.layers))
        /\ call.bbox # <<>> =>
              call.bbox = [k \in 1..Len(call.layers) |->
                              _layer_bbox(Uncropped(call.layers)[k])]

\* A visible layer with the oversize crop has been composited and bounded.
CropClampWitness ==
    /\ call.fn = "compose" /\ call.out # <<>> /\ call.bbox # <<>>
    /\ OnlyOversizeCrops(call.layers) /\ HasOversizeCrop(call.layers)
    /\ \E k \in 1..2 :
          /\ call.layers[k].crop # NoCrop /\ call.layers[k].visible
          /\ call.layers[k].path /\ call.layers[k].scale = 50
          /\ call.bbox[k] = <<call.layers[k].x, 0, call.layers[k].x + 1, 1>>

\* The pages of the list that had text boxes when the batch started and
\* still have them.
Due(e, b) ==
    {e.pages[i].id : i \in {j \in 1..Len(e.pages) :
                               /\ e.pages[j].id \in b.todo
                               /\ e.pages[j].text_boxes # <<>>}}

\* C17: Batch partial failure: when the all-pages inpaint batch ends, it has
\* visited every page that has text boxes, whether the requests succeeded,
\* failed or raised, and success_count + fail_count counts all those pages.
BatchPartialFailure ==
    [][(last' = "generate_all_bg_done" /\ ~batch.orphan) =>
            /\ Due(editor, batch) \subseteq batch.seen
            /\ batch.success_count + batch.fail_count
                   >= Cardinality(Due(editor, batch))]_vars

\* C18: Temp-file cleanup: every temporary file an OCR worker made is deleted
\* by the time the worker is done with it, also when ocr.predict raised: the
\* only temporary files on disk are those of workers inside ocr.predict.
TempFileCleanup ==
    ocr.temp \subseteq {ocr.held[w] : w \in Workers}

\* C19: TextBox geometry invariant: the width of a TextBox is never negative:
\* the constructor refuses a negative width, and no editor operation on an
\* existing box (the position and size entries of the property panel) leaves
\* it with width < 0.
TextBoxGeometry ==
    \A i \in 1..Len(editor.text_boxes) :
        ~editor.text_boxes[i].none => TextBoxValid(editor.text_boxes[i].width)

\* fit_font_size_pt has returned from its binary search.
Searched == call.fn = "fit" /\ call.stage = "returned" /\ call.iter = 12
Fitting(c) ==
    {pt \in Defaults.min_pt..SearchTop(c.box_h_px) :
        fits(c.text, c.box_w_px, c.box_h_px, pt)}

UndoRevertsNewestKind ==
    [][(/\ last' = "undo"
        /\ before.st = "armed"
        /\ editor'.history_index # editor.history_index
        /\ Cursor(editor) >= 2
        /\ editor.history[Cursor(editor)].type # "textboxes"
        /\ editor.history[Cursor(editor) - 1].type = "textboxes"
        /\ editor.history[Cursor(editor)].page_index = editor.cur
        /\ editor.history[Cursor(editor) - 1].page_index = editor.cur) =>
            editor'.text_boxes = editor.text_boxes]_vars

\* What undo and redo are to give back: the text boxes, the layer lists,
\* the background reference and current_page_index.
Restorable(e) ==
    [text_boxes |-> e.text_boxes, clean_bg_path |-> e.clean_bg_path,
     cur |-> e.cur,
     layers |-> [i \in 1..Len(e.pages) |-> PageLayers(e, i)]]

\* C22: Undo/redo inverse: in every state in which undo() is not a no-op, a
\* redo() right after it gives back the text boxes, layer lists, background
\* reference and current_page_index the editor had before the undo.
UndoRedoInverse ==
    \A exists \in BOOLEAN :
        LET u == undo(E, exists)
        IN  (Ok(u) /\ u.history_index # editor.history_index) =>
                Restorable(redo(Visible(u), exists)) = Restorable(editor)

\* C23: Valid page pointer: whenever there are pages, current_page_index is
\* the index of one of them, and no undo or redo raises.
ValidPagePointer ==
    /\ editor.pages # <<>> => InRange(editor)
    /\ last \in {"undo", "redo"} => editor.err = ""

\* C24: delete_page keeps the current page's unsaved edits: a delete_page
\* that removed a page other than the current one leaves the text boxes
\* being edited as they were.
DeleteKeepsUnsavedEdits ==
    [][(/\ last' = "delete_page"
        /\ Len(editor'.pages) < Len(editor.pages)
        /\ InRange(editor)
        /\ \E i \in 1..Len(editor'.pages) :
               editor'.pages[i].id = CurPage(editor).id) =>
            editor'.text_boxes = editor.text_boxes]_vars

\* C25: History cursor invariant: -1 <= history_index <= len(history) - 1,
\* history_index is -1 exactly as long as no save_state has happened, and
\* right after every save_state it is len(history) - 1.
HistoryCursorInvariant ==
    [][/\ -1 <= editor'.history_index
       /\ editor'.history_index <= Len(editor'.history) - 1
       /\ editor'.history_index = -1 <=> editor'.clock = 0
       /\ SaveStep => editor'.history_index = Len(editor'.history) - 1
      ]_vars

\* A save_state has evicted the oldest entry, and the cursor is on the
\* entry it appended.
CursorAfterEvictionWitness ==
    /\ before.st = "armed"
    /\ editor.clock = max_history + 1
    /\ editor.history_index = max_history - 1
    /\ editor.history[editor.history_index + 1].ts = editor.clock

\* C26: History does not outlive its pages: when load_project replaces the
\* page list, every history entry was recorded against the previous page
\* list, so neither undo() nor redo() may restore one: after the load both
\* refuse and leave the cursor, the page index and the buffers as they are.
HistoryDoesNotOutlivePages ==
    \A file \in ProjectFiles, exists \in BOOLEAN :
        LET l == load_project(E, file)
            u == undo(Visible(l), exists)
            r == redo(Visible(l), exists)
        IN  l.notice = "project loaded" =>
                /\ u.history_index = l.history_index
                /\ r.history_index = l.history_index
                /\ Restorable(u) = Restorable(l)
                /\ Restorable(r) = Restorable(l)

\* C27: No lost update during all-pages OCR: a text box the user drew while
\* the auto_detect_all_pages worker was running is still in the buffers after
\* the worker's completion callback (load_current_page), and a navigation
\* during the batch leaves the boxes the worker stored in the page it saves.
NoLostUpdateDuringOcr ==
    /\ [][(/\ last' = "detect_all_done"
            /\ before.st = "armed") =>
               \A i \in 1..Len(editor.text_boxes) :
                   \E j \in 1..Len(editor'.text_boxes) :
                       editor'.text_boxes[j] = editor.text_boxes[i]]_vars
    /\ [][(/\ last' = "go_to_page"
            /\ ocr.pos > editor.cur
            /\ InRange(editor)
            /\ CurPage(editor).text_boxes = Detected) =>
               editor'.pages[editor.cur + 1].text_boxes = Detected]_vars

\* C28: Export sees the saved page: the export worker reads a page's text
\* boxes only after the save_current_page it posted has run on the UI thread,
\* and the text boxes it renders for the page that was current when the
\* export was started are the ones the buffers held at that moment.
ExportSeesSavedPage ==
    /\ export.pos > 0 => ~export.pending
    /\ Len(export.out) > export.cur =>
           export.out[export.cur + 1] = ToDicts(export.boxes)

\* C29: Request-time consistency of the current-page inpaint: the repair
\* layer is added to the page that was current when the request was
\* confirmed, and the mask it is cut with was built from the text boxes of
\* that same page, whatever navigation happened before the worker read them.
InpaintRequestConsistency ==
    [][(/\ last' = "generate_bg"
        /\ mask.made) =>
            /\ mask.page = gen.page
            /\ \A i \in PageOfId(editor, gen.page) :
                   Len(PageLayers(editor', i)) = Len(PageLayers(editor, i)) + 1]_vars

====
